---- MODULE Spec2Model ----
(***************************************************************************)
(* A model of JiTCODE (src/jitcode/_jitcode.py, src/jitcode/_helpers.py):  *)
(* the helper sorter, the chunked code emitter, the integrator facade      *)
(* jitcode and the tangent-space extension jitcode_lyap.                   *)
(*                                                                         *)
(* Four specifications share the module's variables; each one drives one   *)
(* component and leaves the variables of the others idle:                  *)
(*   SpecChunks  write_in_chunks on a bounded producer                     *)
(*   SpecSort    _sort_helpers on a bounded helper list                    *)
(*   Spec        the public operations of one jitcode facade               *)
(*   SpecLyap    a jitcode_lyap instance: construction, set_integrator,    *)
(*               set_initial_value                                         *)
(***************************************************************************)
EXTENDS Integers, Sequences, FiniteSets, TLC

VARIABLES
    \* ---- write_in_chunks (SpecChunks)
    wc_pc,          \* "idle" | "start" | "done"
    lines,          \* the items the producer yields, in order
    chunk_size,     \* the chunk_size argument
    name,           \* the name argument (a string, as a sequence of characters)
    arguments,      \* the arguments argument: a sequence of <<name, type>> pairs
    mainfile,       \* what has been written to the main stream
    deffile,        \* what has been written to the definitions stream
    \* ---- _sort_helpers (SpecSort)
    sort_pc,        \* "idle" | "start" | "done"
    helpers_in,     \* the helper list handed to _sort_helpers
    sort_out,       \* what _sort_helpers returns, or the error it raises
    \* ---- the fields of a jitcode instance (Spec, SpecLyap)
    n,              \* self.n: the declared dimension
    f,              \* self.f: "None" | "lambda" | "C"
    jac,            \* self.jac: "None" | "lambda" | "C"
    _f_C_source,    \* self._f_C_source
    _jac_C_source,  \* self._jac_C_source
    _wants_jacobian, \* self._wants_jacobian
    jac_sym,        \* self.jac_sym: "None", or the generator: "fresh" | "exhausted"
    jac_rows,       \* the number of rows self.jac was lambdified from
    helpers,        \* self.helpers: the sorted helper list
    _y,             \* self._y: the integrator's state vector
    t,              \* self.t: <<>> (no such attribute) or <<time>>
    _integrator,    \* self._integrator: "None" or the algorithm's name
    _tmpdir,        \* self._tmpdir: has the temporary directory been made
    _modulename,    \* self._modulename
    \* ---- the process and the file system around the instance
    modules,        \* the keys of sys.modules that matter: loaded module names
    sofiles,        \* the module files built in the temporary directory
    version_info,   \* the Python version, which selects find_and_load_module
    \* ---- what the last call did (history, not program state)
    lastOp,         \* the public operation called last
    y_arg,          \* the y it was called with (set_initial_value)
    modulename_arg, \* the modulename compile_C was entered with in it, <<>> for none
    exc,            \* the exception it raised to its caller, or "none"
    caught,         \* the exception generate_functions caught in it, or "none"
    warnings,       \* the warnings issued in it
    compile_calls,  \* how often compile_C was entered in it
    degraded,       \* has generate_functions fallen back: "no" | "now" | "before"
    \* ---- the fields jitcode_lyap adds (SpecLyap)
    lyap_pc,        \* "idle" | "new" | "constructed"
    n_lyap_arg,     \* the n_lyap argument of jitcode_lyap.__init__
    n_basic,        \* self.n_basic
    _n_lyap,        \* self._n_lyap
    \* ---- render_and_write_code and the objects it is handed (SpecEmitter)
    em_calls,               \* how often render_and_write_code has been called
    caller_arguments,       \* the list object a caller passes as arguments
    caller_user_functions,  \* the dict object a caller passes as user_functions: its keys
    default_arguments,      \* the list object that is the default of arguments
    default_user_functions, \* the dict object that is the default of user_functions
    declfile,               \* what has been written to declare_<name>_helpers.c
    \* ---- the symbolic side of an instance (SpecSymbolic)
    sym_pc,             \* "idle" | "new" | "constructed" | "rejected"
    sym_n,              \* self.n
    sym_helpers,        \* self.helpers, with what each expression contains
    f_sym,              \* the entries self.f_sym() yields
    dependent_helpers,  \* dependent_helpers of _jac_from_f_with_helpers, or <<>>
    jac_entries,        \* the rows self.jac_sym yields, or <<>>
    F,                  \* the entries generate_f_lambda lambdifies, or <<>>
    JAC                 \* the matrix generate_jac_lambda lambdifies, or <<>>

chunkVars == <<wc_pc, lines, chunk_size, name, arguments, mainfile, deffile>>

sortVars == <<sort_pc, helpers_in, sort_out>>

selfVars ==
    <<n, f, jac, _f_C_source, _jac_C_source, _wants_jacobian, jac_sym, jac_rows,
      helpers, _y, t, _integrator, _tmpdir, _modulename>>

processVars == <<modules, sofiles, version_info>>

callVars == <<lastOp, y_arg, modulename_arg, exc, caught, warnings, compile_calls, degraded>>

facadeVars == <<selfVars, processVars, callVars>>

lyapVars == <<lyap_pc, n_lyap_arg, n_basic, _n_lyap>>

emitterVars ==
    <<em_calls, caller_arguments, caller_user_functions, default_arguments,
      default_user_functions, declfile>>

symbolicVars ==
    <<sym_pc, sym_n, sym_helpers, f_sym, dependent_helpers, jac_entries, F, JAC>>

vars == <<chunkVars, sortVars, facadeVars, lyapVars, emitterVars, symbolicVars>>

(***************************************************************************)
(* Bounds of the model.                                                    *)
(***************************************************************************)
MaxItems == 7
MaxChunk == 3
MaxHelpers == 3
MaxDim == 2
MaxCalls == 2

\* A component that a specification does not drive stays idle.
ChunkIdle ==
    /\ wc_pc = "idle"
    /\ lines = <<>>
    /\ chunk_size = 1
    /\ name = <<>>
    /\ arguments = <<>>
    /\ mainfile = <<>>
    /\ deffile = <<>>

SortIdle ==
    /\ sort_pc = "idle"
    /\ helpers_in = <<>>
    /\ sort_out = [exc |-> "none", value |-> <<>>]

EmitterIdle ==
    /\ em_calls = 0
    /\ caller_arguments = <<>>
    /\ caller_user_functions = {}
    /\ default_arguments = <<>>
    /\ default_user_functions = {}
    /\ declfile = <<>>

SymbolicIdle ==
    /\ sym_pc = "idle"
    /\ sym_n = 0
    /\ sym_helpers = <<>>
    /\ f_sym = <<>>
    /\ dependent_helpers = <<>>
    /\ jac_entries = <<>>
    /\ F = <<>>
    /\ JAC = <<>>

LyapIdle ==
    /\ lyap_pc = "idle"
    /\ n_lyap_arg = 0
    /\ n_basic = 0
    /\ _n_lyap = 0

(***************************************************************************)
(* Strings are sequences of characters. A character is a one-letter string; *)
(* a constant prefix that holds no digit is kept as one element.           *)
(***************************************************************************)
Digits == <<"0", "1", "2", "3", "4", "5", "6", "7", "8", "9">>

isdigit(ch) == \E d \in 1..10 : Digits[d] = ch

DigitValue(ch) == (CHOOSE d \in 1..10 : Digits[d] = ch) - 1

Min(a, b) == IF a < b THEN a ELSE b

\* int(i) for a string of decimal digits
RECURSIVE int(_)
int(s) ==
    IF s = <<>> THEN 0
    ELSE 10 * int(SubSeq(s, 1, Len(s) - 1)) + DigitValue(s[Len(s)])

\* the decimal digits of v >= 0, without padding
RECURSIVE str(_)
str(v) ==
    IF v < 10 THEN <<Digits[v + 1]>>
    ELSE Append(str(v \div 10), Digits[(v % 10) + 1])

\* "%.<width>i" % v : at least width digits, padded with zeros on the left
RECURSIVE FormatPrecision(_, _)
FormatPrecision(width, v) ==
    LET s == str(v)
    IN  IF Len(s) >= width THEN s
        ELSE <<"0">> \o FormatPrecision(width - 1, v)

\* rsplit_int(s): s split into <<head, trailing digits>>
RECURSIVE rsplit_int(_)
rsplit_int(s) ==
    IF s # <<>> /\ isdigit(s[Len(s)])
    THEN LET xy == rsplit_int(SubSeq(s, 1, Len(s) - 1))
         IN  <<xy[1], Append(xy[2], s[Len(s)])>>
    ELSE <<s, <<>>>>

\* count_up(name): the numeric suffix of name bumped, "_1" appended when it has none
count_up(nm) ==
    LET si == rsplit_int(nm)
    IN  si[1] \o (IF si[2] # <<>>
                  THEN FormatPrecision(Len(si[2]), int(si[2]) + 1)
                  ELSE <<"_", "1">>)

RECURSIVE Sum(_)
Sum(sq) == IF sq = <<>> THEN 0 ELSE Head(sq) + Sum(Tail(sq))

(***************************************************************************)
(* write_in_chunks. What is written to a stream is kept as a sequence of   *)
(* records, one per logical piece of text:                                 *)
(*   line  one item of the producer                                        *)
(*   call  funcname(arg, ...);          in the main stream                 *)
(*   open  void funcname(type arg, ...){   in the definitions stream       *)
(*   close }                             in the definitions stream         *)
(***************************************************************************)
Line(item) == [kind |-> "line", item |-> item]

Call(funcname, args) ==
    [kind |-> "call", name |-> funcname,
     args |-> [k \in 1..Len(args) |-> args[k][1]]]

Open(funcname, args) ==
    [kind |-> "open", name |-> funcname,
     args |-> IF args # <<>> THEN args ELSE <<"void">>]

Close == [kind |-> "close"]

WriteLines(stream, items) ==
    stream \o [k \in 1..Len(items) |-> Line(items[k])]

\* range(chunk_size+1) of the first loop; the faulty variant buffers chunk_size items
FirstChunkSizeShort(c) == c

FirstChunkSize(c) == c + 1

\* the while loop of write_in_chunks: one recursion per iteration. rest is what
\* chain(first_chunk, lines) still holds. An iteration ends the loop when next()
\* raises StopIteration, that is when fewer than c items are left.
RECURSIVE chunk_loop(_, _, _, _, _, _)
chunk_loop(rest, funcname, main, def, c, args) ==
    LET main1 == Append(main, Call(funcname, args))
        def1  == Append(def, Open(funcname, args))
        k     == Min(c, Len(rest))
        def2  == Append(WriteLines(def1, SubSeq(rest, 1, k)), Close)
    IN  IF Len(rest) < c
        THEN <<main1, def2>>
        ELSE chunk_loop(SubSeq(rest, k + 1, Len(rest)), count_up(funcname),
                        main1, def2, c, args)

\* write_in_chunks(lines, mainfile, deffile, name, chunk_size, arguments):
\* the streams <<mainfile, deffile>> after the call
write_in_chunks(ls, main, def, nm, c, args) ==
    IF Len(ls) < FirstChunkSize(c)
    THEN <<WriteLines(main, ls), def>>
    ELSE chunk_loop(ls, <<"definitions_">> \o nm, main, def, c, args)

\* the names the emitter is called with: name+"_helper", name+"code"
\* (render_and_write_code), name+"helpers" (render_and_write_code_old); a caller's
\* name may end in digits
ChunkNames ==
    { <<"f", "_helper">>, <<"f", "code">>, <<"f", "9">>, <<"f", "0", "9">> }

ChunkArguments ==
    { <<>>, << <<"Y", "PyArrayObject*">> >>,
      << <<"dY", "PyArrayObject*">>, <<"Y", "PyArrayObject*">> >> }

(***************************************************************************)
(* _sort_helpers. A helper is a pair (symbol, expression); of the          *)
(* expression the sorter reads only which symbols it contains              *)
(* (expr.has(symbol)), so a helper is kept as [sym, has]: its symbol and   *)
(* the set of symbols its defining expression contains.                    *)
(***************************************************************************)
ValueError_cyclic == "ValueError: Helpers have cyclic dependencies."

\* a faulty variant of depends_on_any: the relation read backwards
depends_on_any_reversed(helper, other_helpers) ==
    \E k \in 1..Len(other_helpers) : helper.sym \in other_helpers[k].has

depends_on_any(helper, other_helpers) ==
    \E k \in 1..Len(other_helpers) : other_helpers[k].sym \in helper.has

\* helpers.insert(0, helpers.pop(j)), with j counted from 1
MoveToFront(hs, j) ==
    <<hs[j]>> \o SubSeq(hs, 1, j - 1) \o SubSeq(hs, j + 1, Len(hs))

\* what a call gives back: the value it returns or the exception it raises
Returns(v) == [exc |-> "none", value |-> v]

Raises(e) == [exc |-> e, value |-> <<>>]

RECURSIVE _sort_helpers(_)
_sort_helpers(hs) ==
    IF Len(hs) > 1
    THEN LET free == { j \in 1..Len(hs) : ~depends_on_any(hs[j], hs) }
         IN  IF free = {}
             THEN Raises(ValueError_cyclic)
             ELSE LET j     == CHOOSE m \in free : \A o \in free : m <= o
                      moved == MoveToFront(hs, j)
                      tail  == _sort_helpers(Tail(moved))
                  IN  IF tail.exc # "none"
                      THEN tail
                      ELSE Returns(<<moved[1]>> \o tail.value)
    ELSE Returns(hs)

\* A helper list of len helpers: the helper at position k has the symbol k (the
\* sorter never reads which symbol it is, only whether an expression contains
\* it), and has[k] are the symbols of the list its expression contains, its own
\* symbol possibly among them.
HelperList(len, has) == [k \in 1..len |-> [sym |-> k, has |-> has[k]]]

(***************************************************************************)
(* The facade jitcode. A method is an operator from the instance's state   *)
(* before the call to its state after it. The state is the record Self of  *)
(* the instance's fields, of the process state the methods read and write, *)
(* and of what the call has done so far; exc is the exception that is      *)
(* propagating, "none" while the method runs normally.                     *)
(***************************************************************************)
Self ==
    [n |-> n, f |-> f, jac |-> jac, _f_C_source |-> _f_C_source,
     _jac_C_source |-> _jac_C_source, _wants_jacobian |-> _wants_jacobian,
     jac_sym |-> jac_sym, jac_rows |-> jac_rows, helpers |-> helpers,
     _y |-> _y, t |-> t, _integrator |-> _integrator, _tmpdir |-> _tmpdir,
     _modulename |-> _modulename, modules |-> modules, sofiles |-> sofiles,
     modulename_arg |-> modulename_arg, exc |-> exc, caught |-> caught, warnings |-> warnings,
     compile_calls |-> compile_calls, degraded |-> degraded]

\* a public call starts with nothing raised, caught or warned
Begin ==
    [Self EXCEPT !.modulename_arg = <<>>,
                 !.exc = "none", !.caught = "none", !.warnings = {},
                 !.compile_calls = 0,
                 !.degraded = IF @ = "no" THEN "no" ELSE "before"]

\* the rest of a method, Op, runs only while no exception propagates
Then(s, Op(_)) == IF s.exc # "none" THEN s ELSE Op(s)

Raise(s, e) == [s EXCEPT !.exc = e]

warn(s, w) == [s EXCEPT !.warnings = @ \cup {w}]

_is_C(function) == function = "C"

_is_lambda(function) == function = "lambda"

\* find_integrator(name): the empty name matches the first integrator class, vode
find_integrator(nm) == IF nm = "" THEN "vode" ELSE nm

\* vode takes with_jacobian, the Runge-Kutta integrators do not
_can_use_jacobian(integratorname) == find_integrator(integratorname) = "vode"

\* the value of self.t while the instance has no such attribute; once set,
\* self.t is <<time>>
NoAttribute == <<>>

\* jitcode.__init__: the fields of a new instance. self.t and self._integrator
\* are not set: ode.__init__ is not called.
jitcode__init__(nn, hs, wants_jacobian) ==
    [n |-> nn, f |-> "None", jac |-> "None", _f_C_source |-> FALSE,
     _jac_C_source |-> FALSE, _wants_jacobian |-> wants_jacobian,
     jac_sym |-> "None", jac_rows |-> 0, helpers |-> hs,
     _y |-> <<>>, t |-> NoAttribute, _integrator |-> "None", _tmpdir |-> FALSE,
     _modulename |-> <<"jitced">>]

\* generate_jac_sym: self.jac_sym is a new generator of _jac_from_f_with_helpers
generate_jac_sym(s) == [s EXCEPT !.jac_sym = "fresh"]

_generate_jac_sym(s) == IF s.jac_sym = "None" THEN generate_jac_sym(s) ELSE s

(***************************************************************************)
(* The call of the emitter. render_and_write_code(expressions, helpers,    *)
(* tmpfile, name, user_functions = {}, chunk_size = 100, arguments = [])   *)
(* binds the positional values of a call to its parameters in this order.  *)
(* Of a value the model keeps its kind.                                    *)
(***************************************************************************)
EmitterParams == <<"expressions", "helpers", "tmpfile", "name", "user_functions">>

\* a faulty variant of EmitterCallArgs: the helper list is passed second
EmitterCallArgsWithHelpers ==
    <<"producer", "list", "tmpfile", "string", "table">>

\* the positional values generate_f_C and generate_jac_C pass (lines 292-296,
\* 304-308, 361-365, 374-383): a generator, self._tmpfile, a string, a dict
EmitterCallArgs == <<"producer", "tmpfile", "string", "table">>

BindPositional(args) ==
    [k \in 1..Len(EmitterParams) |->
        IF k <= Len(args) THEN args[k] ELSE "default"]

ParamIndex(p) == CHOOSE k \in 1..Len(EmitterParams) : EmitterParams[k] = p

\* render_and_write_code up to its first failure: "set_"+name needs a string
\* (line 205), enumerate(helpers) a list (line 207), tmpfile(...) a callable
\* (line 212). When it runs through, its files are in the temporary directory.
render_and_write_code(s, args) ==
    LET bound == BindPositional(args)
    IN  IF bound[ParamIndex("name")] # "string" THEN Raise(s, "TypeError")
        ELSE IF bound[ParamIndex("helpers")] # "list" THEN Raise(s, "TypeError")
        ELSE IF bound[ParamIndex("tmpfile")] # "tmpfile" THEN Raise(s, "TypeError")
        ELSE [s EXCEPT !._tmpdir = TRUE]

\* generate_f_C: with or without do_cse the emitter is called, and
\* _f_C_source is set once it has returned
generate_f_C(s) ==
    Then(render_and_write_code(s, EmitterCallArgs),
         LAMBDA r : [r EXCEPT !._f_C_source = TRUE])

_generate_f_C(s) == IF ~s._f_C_source THEN generate_f_C(s) ELSE s

\* generate_jac_C: with do_cse the Jacobian is read from the generator into a
\* matrix before the emitter is called (line 348), else the emitter reads it
generate_jac_C(s, do_cse) ==
    LET s1 == _generate_jac_sym(s)
        s2 == IF do_cse THEN [s1 EXCEPT !.jac_sym = "exhausted"] ELSE s1
    IN  Then(render_and_write_code(s2, EmitterCallArgs),
             LAMBDA r : [r EXCEPT !.jac_sym = "exhausted",
                                  !._jac_C_source = TRUE])

_generate_jac_C(s) ==
    IF s._wants_jacobian /\ ~s._jac_C_source THEN generate_jac_C(s, FALSE) ELSE s

\* generate_helpers_C: render_and_write_code_old is called with the parameters
\* in its order, and writes its files
generate_helpers_C(s) == [s EXCEPT !._tmpdir = TRUE]

_generate_helpers_C(s) == IF s.helpers # <<>> THEN generate_helpers_C(s) ELSE s

\* while self._modulename in modules.keys(): count_up
RECURSIVE FreeName(_, _)
FreeName(nm, loaded) ==
    IF nm \in loaded THEN FreeName(count_up(nm), loaded) ELSE nm

\* version_info, as 10*major + minor: Python 3.4 and Python 3.5
VersionInfos == { 34, 35 }

\* find_and_load_module: load_module (before Python 3.5) enters the module in
\* sys.modules, module_from_spec and exec_module (from 3.5 on) do not
find_and_load_module(s, modulename) ==
    IF version_info < 35
    THEN [s EXCEPT !.modules = @ \cup {modulename}]
    ELSE s

\* compile_C(modulename = requested): requested is <<>> for None or ""; buildOK
\* says whether the native build (setup) succeeds
compile_C(s, requested, buildOK) ==
    LET s0 == [s EXCEPT !.compile_calls = @ + 1, !.modulename_arg = requested]
        s1 == _generate_f_C(s0)
        s2 == Then(s1, _generate_jac_C)
        s3 == Then(s2, _generate_helpers_C)
        named(r) ==
            IF requested # <<>>
            THEN IF requested \in r.modules
                 THEN Raise(r, "NameError")
                 ELSE [r EXCEPT !._modulename = requested]
            ELSE [r EXCEPT !._modulename = FreeName(@, r.modules)]
        checked(r) ==
            IF r._modulename \in r.sofiles
            THEN Raise([r EXCEPT !._tmpdir = TRUE], "OSError")
            ELSE [r EXCEPT !._tmpdir = TRUE]
        built(r) ==
            IF buildOK
            THEN [r EXCEPT !.sofiles = @ \cup {r._modulename}]
            ELSE Raise(r, "BuildError")
        loaded(r) ==
            [find_and_load_module(r, r._modulename)
                EXCEPT !.f = "C",
                       !.jac = IF r._jac_C_source THEN "C" ELSE @]
    IN  Then(Then(Then(Then(s3, named), checked), built), loaded)

_compile_C(s, buildOK) ==
    IF (~_is_C(s.f)) \/ (s._wants_jacobian /\ ~_is_C(s.jac))
    THEN compile_C(s, <<>>, buildOK)
    ELSE s

generate_f_lambda(s) ==
    LET s1 == IF s.helpers # <<>> THEN warn(s, "helpers") ELSE s
    IN  [s1 EXCEPT !.f = "lambda"]

_generate_f_lambda(s) == IF ~_is_lambda(s.f) THEN generate_f_lambda(s) ELSE s

\* a faulty variant of generate_jac_lambda: the generator that was read is dropped
generate_jac_lambda_dropping(s) ==
    LET s1 == IF s.helpers # <<>> THEN warn(s, "helpers") ELSE s
        lambdify(r) ==
            [r EXCEPT !.jac_rows = IF r.jac_sym = "fresh" THEN r.n ELSE 0,
                      !.jac_sym = "None",
                      !.jac = "lambda"]
    IN  lambdify(_generate_jac_sym(s1))

\* generate_jac_lambda: the matrix is built from the rows the generator
\* self.jac_sym still yields; reading it exhausts it
generate_jac_lambda(s) ==
    LET s1 == IF s.helpers # <<>> THEN warn(s, "helpers") ELSE s
        lambdify(r) ==
            [r EXCEPT !.jac_rows = IF r.jac_sym = "fresh" THEN r.n ELSE 0,
                      !.jac_sym = "exhausted",
                      !.jac = "lambda"]
    IN  lambdify(_generate_jac_sym(s1))

_generate_jac_lambda(s) ==
    IF ~_is_lambda(s.jac) THEN generate_jac_lambda(s) ELSE s

\* a faulty variant of generate_lambdas: the Jacobian is left out
generate_lambdas_f_only(s) == _generate_f_lambda(s)

generate_lambdas(s) ==
    LET jac_if_wanted(r) ==
            IF r._wants_jacobian THEN _generate_jac_lambda(r) ELSE r
    IN  jac_if_wanted(_generate_f_lambda(s))

\* generate_functions: whatever _compile_C raises is caught, two warnings are
\* issued and generate_lambdas runs
generate_functions(s, buildOK) ==
    LET except(tried) ==
            IF tried.exc = "none" THEN tried
            ELSE generate_lambdas(
                     [warn(warn(tried, "format_exc"), "resorting to lambdified")
                        EXCEPT !.exc = "none", !.caught = tried.exc,
                               !.degraded = IF @ = "no" THEN "now" ELSE @])
    IN  except(_compile_C(s, buildOK))

\* a faulty variant of _generate_functions: the functions are generated on every call
_generate_functions_always(s, buildOK) == generate_functions(s, buildOK)

_generate_functions(s, buildOK) ==
    IF (s.f = "None") \/ (s._wants_jacobian /\ (s.jac = "None"))
    THEN generate_functions(s, buildOK)
    ELSE s

(***************************************************************************)
(* scipy.integrate.ode, the base class, as far as the facade calls it.     *)
(***************************************************************************)
\* ode.__init__(f, jac): f and jac are the instance's own, self._y is reset
ode__init__(s) == [s EXCEPT !._y = <<>>]

\* ode.set_integrator: with no state yet, t = 0.0 and _y = [0.0]
ode_set_integrator(s, nm) ==
    [s EXCEPT !._integrator = find_integrator(nm),
              !.t = IF s._y = <<>> THEN <<0>> ELSE @,
              !._y = IF s._y = <<>> THEN <<0>> ELSE @]

\* set_integrator; ode.set_initial_value calls it back (self.set_integrator(''))
\* when the instance has no state yet
RECURSIVE set_integrator(_, _, _)

\* a faulty variant of ode_set_initial_value: the time is reset to 0
ode_set_initial_value_at_zero(s, y, tt, buildOK) ==
    LET s1 == IF s._y = <<>> THEN set_integrator(s, "", buildOK) ELSE s
    IN  Then(s1, LAMBDA r : [r EXCEPT !._y = y, !.t = <<0>>])

ode_set_initial_value(s, y, tt, buildOK) ==
    LET s1 == IF s._y = <<>> THEN set_integrator(s, "", buildOK) ELSE s
    IN  Then(s1, LAMBDA r : [r EXCEPT !._y = y, !.t = <<tt>>])

set_integrator(s, nm, buildOK) ==
    IF nm = "zvode" THEN Raise(s, "NotImplementedError")
    ELSE
    LET s1 == [s EXCEPT !._wants_jacobian = @ \/ _can_use_jacobian(nm)]
        rebound(s2) ==
            LET save_y == s2._y
                save_t == s2.t
                s3 == ode_set_integrator(ode__init__(s2), nm)
            IN  IF save_t = NoAttribute THEN s3
                ELSE ode_set_initial_value(s3, save_y, save_t[1], buildOK)
    IN  Then(_generate_functions(s1, buildOK), rebound)

\* jitcode.set_initial_value
set_initial_value(s, y, tt, buildOK) ==
    IF s.n # Len(y) THEN Raise(s, "ValueError")
    ELSE LET s1 == IF s._integrator = "None"
                   THEN warn(s, "No integrator set") ELSE s
         IN  ode_set_initial_value(s1, y, tt, buildOK)

\* ode.integrate, which jitcode inherits: without an integrator there is no
\* self._integrator to run; else the integrator returns a new state and time
integrate(s, tt, y) ==
    IF s._integrator = "None" THEN Raise(s, "AttributeError")
    ELSE [s EXCEPT !._y = y, !.t = <<tt>>]

\* get_module_path(self._modulename, self._tmpfile()): the module file must be
\* in the temporary directory
get_module_path(s) ==
    IF s._modulename \in s.sofiles
    THEN [s EXCEPT !._tmpdir = TRUE]
    ELSE Raise([s EXCEPT !._tmpdir = TRUE], "ModuleNotFound")

\* save_compiled(destination, overwrite). filename is the file part of the
\* destination, <<>> when it is empty or names a directory only; destExists
\* says whether the target file is there already.
save_compiled(s, filename, overwrite, destExists, buildOK) ==
    LET s1 == IF filename # <<>>
              THEN IF filename # s._modulename
                   THEN compile_C(s, filename, buildOK)
                   ELSE s
              ELSE _compile_C(s, buildOK)
        s2 == Then(s1, get_module_path)
    IN  Then(s2, LAMBDA r : IF destExists /\ ~overwrite
                            THEN Raise(r, "OSError") ELSE r)

(***************************************************************************)
(* render_and_write_code(expressions, helpers, tmpfile, name,             *)
(* user_functions = {}, chunk_size = 100, arguments = []) called with      *)
(* every value in its role. A name is a sequence of characters, a dict is  *)
(* the set of its keys, a parameter is a pair <<name, type>>.              *)
(***************************************************************************)
\* "set_"+name+"_helper" and "get_"+name+"_helper"
set_helper(nm) == <<"set_">> \o nm \o <<"_helper">>

get_helper(nm) == <<"get_">> \o nm \o <<"_helper">>

\* user_functions after lines 209-210: both keys are stored in the dict
user_functions_stored(user_functions, nm) ==
    user_functions \cup { set_helper(nm), get_helper(nm) }

\* arguments after line 234: arguments += [...] extends the list object in place
arguments_extended(args, hs, nm) ==
    IF hs # <<>> THEN Append(args, <<nm \o <<"_helper">>, "double*">>) ELSE args

\* the two lines written to declare_<name>_helpers.c (lines 212-214)
declarations(nm) ==
    << [kind |-> "define", name |-> get_helper(nm)],
       [kind |-> "define", name |-> set_helper(nm)] >>

\* double <name>_helper[len(helpers)]; (line 233)
helper_buffer(hs, nm) ==
    IF hs # <<>>
    THEN << [kind |-> "buffer", name |-> nm \o <<"_helper">>, len |-> Len(hs)] >>
    ELSE <<>>

\* the items of the two producers: one per helper, one per expression
helperlines(hs) == [i \in 1..Len(hs) |-> <<"set_helper", i - 1>>]

codelines(expressions) == [k \in 1..Len(expressions) |-> <<"code", expressions[k]>>]

\* lines 228-241: the streams <<mainfile, deffile>> a call writes; args is the
\* list after line 234, of which the helper sub-routines get arguments[1:]
emitted(expressions, hs, nm, chunk, args) ==
    LET coded(out) ==
            write_in_chunks(codelines(expressions), out[1], out[2],
                            nm \o <<"code">>, chunk, args)
    IN  IF chunk < 1
        THEN << WriteLines(WriteLines(helper_buffer(hs, nm), helperlines(hs)),
                           codelines(expressions)),
                <<>> >>
        ELSE coded(write_in_chunks(helperlines(hs), helper_buffer(hs, nm), <<>>,
                                   nm \o <<"_helper">>, chunk,
                                   SubSeq(args, 2, Len(args))))

(***************************************************************************)
(* The symbolic side: _jac_from_f_with_helpers and the substitutions of    *)
(* generate_f_lambda and generate_jac_lambda. Of an expression the code    *)
(* reads which symbols it contains, differentiates it and substitutes in   *)
(* it, so an expression is kept as the set of symbols it contains: the     *)
(* helper symbols <<"h", k>>, the state symbols y(i) as <<"y", i>> and the *)
(* lambdification arguments Y[i] as <<"Y", i>>. A helper is a record       *)
(* [sym, has, ys]: its symbol, the helper symbols and the state indices    *)
(* its expression contains; an entry of f_sym is a record [has, ys].       *)
(***************************************************************************)
HelperSymbol(k) == <<"h", k>>

\* y(i) of provide_basic_symbols
StateSymbol(i) == <<"y", i>>

\* Y[i] of sympy.symarray("Y", n)
ArgumentSymbol(i) == <<"Y", i>>

\* the symbols an expression contains
Symbols(e) ==
    { HelperSymbol(k) : k \in e.has } \cup { StateSymbol(i) : i \in e.ys }

\* A derivative is kept as the dependency paths its terms come from and the
\* symbols it contains; 0 has no term and no symbol.
Zero == [paths |-> {}, contains |-> {}]

\* sympy.diff(expr, v) for expr given by its symbols: 0 unless expr contains v;
\* the derivative is taken to contain every symbol of expr, as the derivative of
\* exp(a*b*...) does.
diff(expr, v) ==
    IF v \in expr THEN [paths |-> {<<v>>}, contains |-> expr] ELSE Zero

\* a * b on derivatives: the terms of a continued by the terms of b
Times(a, b) ==
    IF a.paths = {} \/ b.paths = {}
    THEN Zero
    ELSE [paths    |-> { p \o q : p \in a.paths, q \in b.paths },
          contains |-> a.contains \cup b.contains]

\* a + b on derivatives
Plus(a, b) ==
    [paths |-> a.paths \cup b.paths, contains |-> a.contains \cup b.contains]

\* a faulty variant of chain_terms: the dependent helpers are not followed
chain_terms_dropped(expr, dep, k) == Zero

\* the sum, over the first k pairs (symbol, derivative) of dep, of
\* sympy.diff(expr, symbol) * derivative
RECURSIVE chain_terms(_, _, _)
chain_terms(expr, dep, k) ==
    IF k = 0
    THEN Zero
    ELSE Plus(chain_terms(expr, dep, k - 1), Times(diff(expr, dep[k][1]), dep[k][2]))

\* the derivative of a helper's expression by y(i), given the helpers already
\* known to depend on y(i)
derivative(expr, i, dep) ==
    Plus(diff(expr, StateSymbol(i)), chain_terms(expr, dep, Len(dep)))

\* if derivative: dependent_helpers[i].append( (helper[0], derivative) )
appended(dep, helper, d) ==
    IF d.paths # {} THEN Append(dep, <<HelperSymbol(helper.sym), d>>) ELSE dep

\* one turn of the loop over the helpers, for the state index i
visited(dep, helper, i) ==
    appended(dep, helper, derivative(Symbols(helper), i, dep))

\* dependent_helpers[i] after the first k helpers of hs
RECURSIVE dependent_on(_, _, _)
dependent_on(hs, i, k) ==
    IF k = 0 THEN <<>> ELSE visited(dependent_on(hs, i, k - 1), hs[k], i)

\* dependent_helpers: position i + 1 holds the list of the state index i
dependent_helpers_of(hs, nn) ==
    [i \in 1..nn |-> dependent_on(hs, i - 1, Len(hs))]

\* line(f_entry): the n entries of one row (simplify does not change which
\* terms there are, barring cancellation)
line(f_entry, dep, nn) ==
    [j \in 1..nn |->
        Plus(diff(Symbols(f_entry), StateSymbol(j - 1)),
             chain_terms(Symbols(f_entry), dep[j], Len(dep[j])))]

\* the rows _jac_from_f_with_helpers yields, one per entry of f()
_jac_from_f_with_helpers(fs, hs, nn) ==
    [i \in 1..Len(fs) |-> line(fs[i], dependent_helpers_of(hs, nn), nn)]

\* expr.subs(old, new) for one pair
subs_pair(expr, old, new) ==
    IF old \in expr THEN (expr \ {old}) \cup new ELSE expr

\* expr.subs(list of pairs): the pairs are applied one after the other
RECURSIVE subs(_, _)
subs(expr, pairs) ==
    IF pairs = <<>>
    THEN expr
    ELSE subs(subs_pair(expr, Head(pairs)[1], Head(pairs)[2]), Tail(pairs))

\* self.helpers[::-1] + [(y(i),Y[i]) for i in range(self.n)]
substitutions(hs, nn) ==
    [k \in 1..Len(hs) |->
        <<HelperSymbol(hs[Len(hs) + 1 - k].sym), Symbols(hs[Len(hs) + 1 - k])>>]
    \o [i \in 1..nn |-> <<StateSymbol(i - 1), {ArgumentSymbol(i - 1)}>>]

\* the entries generate_f_lambda hands to sympy.lambdify
f_sym_wc(fs, hs, nn) ==
    [i \in 1..Len(fs) |-> subs(Symbols(fs[i]), substitutions(hs, nn))]

\* the matrix generate_jac_lambda hands to sympy.lambdify
jac_subsed(jac_matrix, hs, nn) ==
    [i \in 1..Len(jac_matrix) |->
        [j \in 1..Len(jac_matrix[i]) |->
            subs(jac_matrix[i][j].contains, substitutions(hs, nn))]]
(***************************************************************************)
(* The tangent-space extension jitcode_lyap.                               *)
(***************************************************************************)
\* self._n_lyap = n if (n_lyap<0 or n_lyap>n) else n_lyap
effective_n_lyap(nn, n_lyap) ==
    IF n_lyap < 0 \/ n_lyap > nn THEN nn ELSE n_lyap

\* what the generator function f_lyap yields: the entries of f_basic, then for
\* each of the _n_lyap tangent vectors one entry per line of the Jacobian, of
\* which _jac_from_f_with_helpers yields one per entry of f_basic
f_lyap(nn, nl) ==
    [k \in 1..nn |-> <<"f", k>>] \o
    [k \in 1..(nl * nn) |-> <<"tangent", (k - 1) \div nn, ((k - 1) % nn)>>]

\* the n jitcode_lyap.__init__ hands to jitcode.__init__ (line 695)
declared_n(nn, nl) == nl * (nn + 1)

\* _handle_input for a generator function: n = n or sum(1 for _ in f_sym())
_handle_input(produced, declared) ==
    IF declared # 0 THEN declared ELSE Len(produced)

\* random_direction(n): a vector divided by its norm. The model draws it from
\* two unit vectors: the first axis, and the last axis reversed.
random_direction(nn) ==
    { [k \in 1..nn |-> IF k = 1 THEN 1 ELSE 0],
      [k \in 1..nn |-> IF k = nn THEN -1 ELSE 0] }

\* hstack([y] + directions)
RECURSIVE hstack(_)
hstack(vectors) ==
    IF vectors = <<>> THEN <<>> ELSE Head(vectors) \o hstack(Tail(vectors))

(***************************************************************************)
(* The specifications.                                                     *)
(***************************************************************************)
\* the fields of the instance are those of the record r
SelfIs(r) ==
    /\ n = r.n
    /\ f = r.f
    /\ jac = r.jac
    /\ _f_C_source = r._f_C_source
    /\ _jac_C_source = r._jac_C_source
    /\ _wants_jacobian = r._wants_jacobian
    /\ jac_sym = r.jac_sym
    /\ jac_rows = r.jac_rows
    /\ helpers = r.helpers
    /\ _y = r._y
    /\ t = r.t
    /\ _integrator = r._integrator
    /\ _tmpdir = r._tmpdir
    /\ _modulename = r._modulename

NothingCalled(op) ==
    /\ lastOp = op
    /\ y_arg = <<>>
    /\ modulename_arg = <<>>
    /\ exc = "none"
    /\ caught = "none"
    /\ warnings = {}
    /\ compile_calls = 0
    /\ degraded = "no"

\* the process at the start: nothing of the model's names is loaded or built
NewProcess ==
    /\ modules = {}
    /\ sofiles = {}
    /\ version_info \in VersionInfos

FacadeIdle ==
    /\ SelfIs(jitcode__init__(0, <<>>, FALSE))
    /\ modules = {}
    /\ sofiles = {}
    /\ version_info = 35
    /\ NothingCalled("idle")

\* the state after the public operation op, which took the state to r
Commit(op, yarg, r) ==
    /\ lastOp' = op
    /\ y_arg' = yarg
    /\ n' = r.n
    /\ f' = r.f
    /\ jac' = r.jac
    /\ _f_C_source' = r._f_C_source
    /\ _jac_C_source' = r._jac_C_source
    /\ _wants_jacobian' = r._wants_jacobian
    /\ jac_sym' = r.jac_sym
    /\ jac_rows' = r.jac_rows
    /\ helpers' = r.helpers
    /\ _y' = r._y
    /\ t' = r.t
    /\ _integrator' = r._integrator
    /\ _tmpdir' = r._tmpdir
    /\ _modulename' = r._modulename
    /\ modules' = r.modules
    /\ sofiles' = r.sofiles
    /\ modulename_arg' = r.modulename_arg
    /\ exc' = r.exc
    /\ caught' = r.caught
    /\ warnings' = r.warnings
    /\ compile_calls' = r.compile_calls
    /\ degraded' = r.degraded
    /\ UNCHANGED version_info

\* the sorted helper lists of the facade: none, or one helper
FacadeHelpers == { <<>>, <<[sym |-> 1, has |-> {}]>> }

YValues(len) == { [k \in 1..len |-> a] : a \in 1..2 }

YArguments == UNION { YValues(len) : len \in 1..MaxDim }

\* the times a caller passes: of a time the facade reads nothing, it stores it
TValues == { 0, 1 }

IntegratorNames == { "vode", "dopri5", "zvode" }

ModuleNames == { <<"mymodule">> }

Init ==
    /\ ChunkIdle /\ SortIdle /\ LyapIdle /\ EmitterIdle /\ SymbolicIdle
    /\ \E nn \in 1..MaxDim, hs \in FacadeHelpers, wants \in BOOLEAN :
          SelfIs(jitcode__init__(nn, hs, wants))
    /\ NewProcess
    /\ NothingCalled("__init__")

Others == <<chunkVars, sortVars, lyapVars, emitterVars, symbolicVars>>

GenerateJacSym ==
    /\ Commit("generate_jac_sym", <<>>, generate_jac_sym(Begin))
    /\ UNCHANGED Others

GenerateFC ==
    /\ Commit("generate_f_C", <<>>, generate_f_C(Begin))
    /\ UNCHANGED Others

GenerateJacC ==
    /\ \E do_cse \in BOOLEAN :
          Commit("generate_jac_C", <<>>, generate_jac_C(Begin, do_cse))
    /\ UNCHANGED Others

GenerateHelpersC ==
    /\ Commit("generate_helpers_C", <<>>, generate_helpers_C(Begin))
    /\ UNCHANGED Others

CompileC ==
    /\ \E requested \in ModuleNames \cup {<<>>}, buildOK \in BOOLEAN :
          Commit("compile_C", <<>>, compile_C(Begin, requested, buildOK))
    /\ UNCHANGED Others

GenerateFLambda ==
    /\ Commit("generate_f_lambda", <<>>, generate_f_lambda(Begin))
    /\ UNCHANGED Others

GenerateJacLambda ==
    /\ Commit("generate_jac_lambda", <<>>, generate_jac_lambda(Begin))
    /\ UNCHANGED Others

GenerateLambdas ==
    /\ Commit("generate_lambdas", <<>>, generate_lambdas(Begin))
    /\ UNCHANGED Others

GenerateFunctions ==
    /\ \E buildOK \in BOOLEAN :
          Commit("generate_functions", <<>>, generate_functions(Begin, buildOK))
    /\ UNCHANGED Others

SetIntegrator ==
    /\ \E nm \in IntegratorNames, buildOK \in BOOLEAN :
          Commit("set_integrator", <<>>, set_integrator(Begin, nm, buildOK))
    /\ UNCHANGED Others

SetInitialValue ==
    /\ \E y \in YArguments, tt \in TValues, buildOK \in BOOLEAN :
          Commit("set_initial_value", y, set_initial_value(Begin, y, tt, buildOK))
    /\ UNCHANGED Others

Integrate ==
    /\ \E tt \in TValues, y \in YValues(Len(_y)) :
          Commit("integrate", <<>>, integrate(Begin, tt, y))
    /\ UNCHANGED Others

SaveCompiled ==
    /\ \E filename \in ModuleNames \cup {<<>>, _modulename},
          overwrite \in BOOLEAN, destExists \in BOOLEAN, buildOK \in BOOLEAN :
          Commit("save_compiled", <<>>,
                 save_compiled(Begin, filename, overwrite, destExists, buildOK))
    /\ UNCHANGED Others

Next ==
    \/ GenerateJacSym
    \/ GenerateFC
    \/ GenerateJacC
    \/ GenerateHelpersC
    \/ CompileC
    \/ GenerateFLambda
    \/ GenerateJacLambda
    \/ GenerateLambdas
    \/ GenerateFunctions
    \/ SetIntegrator
    \/ SetInitialValue
    \/ Integrate
    \/ SaveCompiled

Spec == Init /\ [][Next]_vars

\* a producer yields the items 1, 2, ..., N: an item is named by its position
InitChunks ==
    /\ SortIdle /\ FacadeIdle /\ LyapIdle /\ EmitterIdle /\ SymbolicIdle
    /\ wc_pc = "start"
    /\ \E N \in 0..MaxItems : lines = [k \in 1..N |-> k]
    /\ chunk_size \in 1..MaxChunk
    /\ name \in ChunkNames
    /\ arguments \in ChunkArguments
    /\ mainfile = <<>>
    /\ deffile = <<>>

WriteInChunks ==
    /\ wc_pc = "start"
    /\ LET out == write_in_chunks(lines, mainfile, deffile, name, chunk_size,
                                  arguments)
       IN  /\ mainfile' = out[1]
           /\ deffile' = out[2]
    /\ wc_pc' = "done"
    /\ UNCHANGED <<lines, chunk_size, name, arguments>>
    /\ UNCHANGED <<sortVars, facadeVars, lyapVars, emitterVars, symbolicVars>>

NextChunks == WriteInChunks

SpecChunks == InitChunks /\ [][NextChunks]_vars

InitSort ==
    /\ ChunkIdle /\ FacadeIdle /\ LyapIdle /\ EmitterIdle /\ SymbolicIdle
    /\ sort_pc = "start"
    /\ helpers_in = <<>>
    /\ sort_out = Returns(<<>>)

\* _sort_helpers(helpers) for a helper list of the caller's
SortHelpers ==
    /\ sort_pc = "start"
    /\ \E len \in 0..MaxHelpers :
          \E has \in [1..len -> SUBSET (1..len)] :
              /\ helpers_in' = HelperList(len, has)
              /\ sort_out' = _sort_helpers(HelperList(len, has))
    /\ sort_pc' = "done"
    /\ UNCHANGED <<chunkVars, facadeVars, lyapVars, emitterVars, symbolicVars>>

NextSort == SortHelpers

SpecSort == InitSort /\ [][NextSort]_vars


\* a jitcode_lyap instance is yet to be constructed
InitLyap ==
    /\ ChunkIdle /\ SortIdle /\ EmitterIdle /\ SymbolicIdle
    /\ SelfIs(jitcode__init__(0, <<>>, FALSE))
    /\ NewProcess
    /\ NothingCalled("idle")
    /\ lyap_pc = "new"
    /\ n_lyap_arg = 0
    /\ n_basic = 0
    /\ _n_lyap = 0

\* jitcode_lyap.__init__(f_sym, helpers, wants_jacobian, n, n_lyap) for an f_sym
\* of nn entries
LyapConstruct ==
    /\ lyap_pc = "new"
    /\ \E nn \in 1..MaxDim, n_lyap \in -1..(MaxDim + 1),
          hs \in FacadeHelpers, wants \in BOOLEAN :
          LET nl == effective_n_lyap(nn, n_lyap)
              self_n == _handle_input(f_lyap(nn, nl), declared_n(nn, nl))
              new == jitcode__init__(self_n, hs, wants)
          IN  /\ n_lyap_arg' = n_lyap
              /\ n_basic' = nn
              /\ _n_lyap' = nl
              /\ Commit("__init__", <<>>,
                        [Begin EXCEPT !.n = new.n, !.helpers = new.helpers,
                                      !._wants_jacobian = new._wants_jacobian])
    /\ lyap_pc' = "constructed"
    /\ UNCHANGED <<chunkVars, sortVars, emitterVars, symbolicVars>>

\* jitcode_lyap.set_initial_value(y, t)
LyapSetInitialValue ==
    /\ lyap_pc = "constructed"
    /\ \E y \in YArguments, tt \in {0}, buildOK \in BOOLEAN,
          directions \in [1.._n_lyap -> random_direction(n_basic)] :
          Commit("set_initial_value", y,
                 set_initial_value(Begin, hstack(<<y>> \o directions), tt, buildOK))
    /\ UNCHANGED <<chunkVars, sortVars, lyapVars, emitterVars, symbolicVars>>

\* set_integrator, which jitcode_lyap inherits
LyapSetIntegrator ==
    /\ lyap_pc = "constructed"
    /\ \E nm \in IntegratorNames, buildOK \in BOOLEAN :
          Commit("set_integrator", <<>>, set_integrator(Begin, nm, buildOK))
    /\ UNCHANGED <<chunkVars, sortVars, lyapVars, emitterVars, symbolicVars>>

NextLyap ==
    \/ LyapConstruct
    \/ LyapSetInitialValue
    \/ LyapSetIntegrator

SpecLyap == InitLyap /\ [][NextLyap]_vars


\* the names the facade calls the emitter with
EmitterNames == { <<"f">>, <<"jac">> }

\* the helper lists a caller passes: none, or one helper
EmitterHelpers == { <<>>, <<[sym |-> 1, has |-> {}]>> }

\* the expressions of a caller: two entries, named by their position
EmitterExpressions == { <<1, 2>> }

\* a caller holds a parameter list and a function-name table of its own (as in
\* lines 278 and 308); the defaults are the empty list and the empty dict
InitEmitter ==
    /\ ChunkIdle /\ SortIdle /\ FacadeIdle /\ LyapIdle /\ SymbolicIdle
    /\ em_calls = 0
    /\ caller_arguments =
          << <<<<"dY">>, "PyArrayObject*">>, <<<<"Y">>, "PyArrayObject*">> >>
    /\ caller_user_functions = { <<"set_dy">>, <<"y">> }
    /\ default_arguments = <<>>
    /\ default_user_functions = {}
    /\ declfile = <<>>

\* one call of render_and_write_code; own_table and own_list say whether the
\* caller passes its dict and its list or leaves the defaults
RenderAndWriteCode ==
    /\ em_calls < MaxCalls
    /\ \E expressions \in EmitterExpressions, hs \in EmitterHelpers,
          nm \in EmitterNames, chunk \in 0..1,
          own_table \in BOOLEAN, own_list \in BOOLEAN :
          LET user_functions == user_functions_stored(
                  IF own_table THEN caller_user_functions
                  ELSE default_user_functions, nm)
              args == arguments_extended(
                  IF own_list THEN caller_arguments ELSE default_arguments,
                  hs, nm)
              out == emitted(expressions, hs, nm, chunk, args)
          IN  /\ caller_user_functions' =
                    IF own_table THEN user_functions ELSE caller_user_functions
              /\ default_user_functions' =
                    IF own_table THEN default_user_functions ELSE user_functions
              /\ caller_arguments' =
                    IF own_list THEN args ELSE caller_arguments
              /\ default_arguments' =
                    IF own_list THEN default_arguments ELSE args
              /\ declfile' = declarations(nm)
              /\ mainfile' = out[1]
              /\ deffile' = out[2]
    /\ em_calls' = em_calls + 1
    /\ UNCHANGED <<wc_pc, lines, chunk_size, name, arguments>>
    /\ UNCHANGED <<sortVars, facadeVars, lyapVars, symbolicVars>>

NextEmitter == RenderAndWriteCode

SpecEmitter == InitEmitter /\ [][NextEmitter]_vars
\* The helper lists handed to the constructor: helper k has the symbol k; its
\* expression contains the symbol of helper b for every pair <<k, b>> of deps,
\* taken among its own symbol and those of the helpers listed after it, and,
\* if k is in direct, one state symbol.
SymbolicHelpers(len, deps, direct, nn) ==
    [k \in 1..len |->
        [sym |-> k,
         has |-> { b \in k..len : <<k, b>> \in deps },
         ys  |-> IF k \in direct THEN {(k - 1) % nn} ELSE {}]]

\* The right-hand side: n entries, the first containing every helper symbol
\* and y(0), entry i + 1 containing y(i) only.
RightHandSide(len, nn) ==
    [i \in 1..nn |-> [has |-> IF i = 1 THEN 1..len ELSE {}, ys |-> {i - 1}]]

InitSymbolic ==
    /\ ChunkIdle /\ SortIdle /\ FacadeIdle /\ LyapIdle /\ EmitterIdle
    /\ sym_pc = "new"
    /\ sym_n = 0
    /\ sym_helpers = <<>>
    /\ f_sym = <<>>
    /\ dependent_helpers = <<>>
    /\ jac_entries = <<>>
    /\ F = <<>>
    /\ JAC = <<>>

SymbolicOthers == <<chunkVars, sortVars, facadeVars, lyapVars, emitterVars>>

\* jitcode(f_sym, helpers): _handle_input and _sort_helpers
SymbolicInit ==
    /\ sym_pc = "new"
    /\ \E nn \in 1..MaxDim, len \in 0..MaxHelpers :
          \E deps \in SUBSET { <<a, b>> \in (1..len) \X (1..len) : a <= b },
             direct \in SUBSET (1..len) :
              LET stored(sorted) ==
                    IF sorted.exc # "none"
                    THEN /\ sym_pc' = "rejected"
                         /\ UNCHANGED <<sym_n, sym_helpers, f_sym>>
                    ELSE /\ sym_pc' = "constructed"
                         /\ sym_n' = nn
                         /\ sym_helpers' = sorted.value
                         /\ f_sym' = RightHandSide(len, nn)
              IN  stored(_sort_helpers(SymbolicHelpers(len, deps, direct, nn)))
    /\ UNCHANGED <<dependent_helpers, jac_entries, F, JAC>>
    /\ UNCHANGED SymbolicOthers

\* generate_jac_sym, and what the generator it stores yields
SymbolicJacSym ==
    /\ sym_pc = "constructed"
    /\ jac_entries = <<>>
    /\ dependent_helpers' = dependent_helpers_of(sym_helpers, sym_n)
    /\ jac_entries' = _jac_from_f_with_helpers(f_sym, sym_helpers, sym_n)
    /\ UNCHANGED <<sym_pc, sym_n, sym_helpers, f_sym, F, JAC>>
    /\ UNCHANGED SymbolicOthers

\* generate_f_lambda
SymbolicFLambda ==
    /\ sym_pc = "constructed"
    /\ F = <<>>
    /\ F' = f_sym_wc(f_sym, sym_helpers, sym_n)
    /\ UNCHANGED <<sym_pc, sym_n, sym_helpers, f_sym, dependent_helpers, jac_entries, JAC>>
    /\ UNCHANGED SymbolicOthers

\* generate_jac_lambda, the first reader of self.jac_sym; it generates the
\* symbolic Jacobian if there is none
SymbolicJacLambda ==
    /\ sym_pc = "constructed"
    /\ JAC = <<>>
    /\ dependent_helpers' = dependent_helpers_of(sym_helpers, sym_n)
    /\ jac_entries' = _jac_from_f_with_helpers(f_sym, sym_helpers, sym_n)
    /\ JAC' = jac_subsed(_jac_from_f_with_helpers(f_sym, sym_helpers, sym_n),
                         sym_helpers, sym_n)
    /\ UNCHANGED <<sym_pc, sym_n, sym_helpers, f_sym, F>>
    /\ UNCHANGED SymbolicOthers

NextSymbolic ==
    \/ SymbolicInit
    \/ SymbolicJacSym
    \/ SymbolicFLambda
    \/ SymbolicJacLambda

SpecSymbolic == InitSymbolic /\ [][NextSymbolic]_vars
\* the direct-dependency relation of a helper list, on positions
DependsOn(hs) ==
    { <<a, b>> \in (1..Len(hs)) \X (1..Len(hs)) : hs[b].sym \in hs[a].has }

\* pairs joined by a dependency path of at most k+1 steps
RECURSIVE Paths(_, _)
Paths(R, k) ==
    IF k = 0 THEN R
    ELSE LET P == Paths(R, k - 1)
         IN  P \cup { <<a, c>> \in { <<p[1], q[2]>> : p \in P, q \in R } :
                        \E b \in { p[2] : p \in P } :
                            <<a, b>> \in P /\ <<b, c>> \in R }

Cyclic(hs) == \E a \in 1..Len(hs) : <<a, a>> \in Paths(DependsOn(hs), Len(hs))

IsSorted(hs) ==
    \A i, j \in 1..Len(hs) : j > i => hs[j].sym \notin hs[i].has

Range(sq) == { sq[k] : k \in 1..Len(sq) }

\* C4: for an acyclic helper list _sort_helpers returns a permutation of its input
\* in which no helper's expression contains the symbol of a later helper.
C4_SortedPermutation ==
    (sort_pc = "done" /\ ~Cyclic(helpers_in)) =>
        /\ sort_out.exc = "none"
        /\ Len(sort_out.value) = Len(helpers_in)
        /\ Range(sort_out.value) = Range(helpers_in)
        /\ IsSorted(sort_out.value)

\* an acyclic list of three helpers that was not in order has been reordered
C4_Witness ==
    /\ sort_pc = "done"
    /\ Len(helpers_in) = 3
    /\ ~Cyclic(helpers_in)
    /\ ~IsSorted(helpers_in)
    /\ sort_out.exc = "none"
    /\ sort_out.value # helpers_in

\* C5: for a helper list with a dependency cycle of any length, a helper containing
\* its own symbol and lists of length 1 included, _sort_helpers raises the
\* cyclic-dependency error.
C5_CycleRaises ==
    (sort_pc = "done" /\ Cyclic(helpers_in)) => sort_out.exc = ValueError_cyclic
(***************************************************************************)
(* Reading the streams back.                                               *)
(***************************************************************************)
\* the sub-routines of a definitions stream, in order: [name, items]
RECURSIVE Subroutines(_)
Subroutines(def) ==
    IF def = <<>> THEN <<>>
    ELSE LET last == def[Len(def)]
             before == Subroutines(SubSeq(def, 1, Len(def) - 1))
         IN  CASE last.kind = "open" ->
                    Append(before, [name |-> last.name, items |-> <<>>, closed |-> FALSE])
               [] last.kind = "line" ->
                    [before EXCEPT ![Len(before)].items = Append(@, last.item)]
               [] OTHER ->
                    [before EXCEPT ![Len(before)].closed = TRUE]

SelectKind(stream, kind) == SelectSeq(stream, LAMBDA r : r.kind = kind)

CeilDiv(a, b) == (a + b - 1) \div b

ItemRange(a, b) == [k \in 1..(b - a + 1) |-> a + k - 1]

\* C6: with more than chunk_size items, write_in_chunks emits exactly
\* ceil(N/chunk_size) sub-routine definitions and as many calls, in the same order
\* and with pairwise distinct names; the k-th sub-routine holds the items
\* (k-1)*c+1 .. min(k*c, N) in order, so the last one holds between 1 and c items.
C6_ChunkCountAndContent ==
    (wc_pc = "done" /\ Len(lines) > chunk_size) =>
        LET N     == Len(lines)
            c     == chunk_size
            routines == Subroutines(deffile)
            calls == SelectKind(mainfile, "call")
        IN  /\ Len(routines) = CeilDiv(N, c)
            /\ Len(calls) = Len(routines)
            /\ Len(calls) = Len(mainfile)
            /\ \A k \in 1..Len(routines) : calls[k].name = routines[k].name
            /\ \A j, k \in 1..Len(routines) : j # k => routines[j].name # routines[k].name
            /\ \A k \in 1..Len(routines) :
                  /\ routines[k].closed
                  /\ k <= CeilDiv(N, c) =>
                        routines[k].items = ItemRange((k - 1) * c + 1, Min(k * c, N))
            /\ Len(routines[Len(routines)].items) \in 1..c

\* C7: with at most chunk_size items (N = chunk_size included) every item goes to
\* the main stream in producer order, no call is written and the definitions
\* stream stays empty.
C7_InlineWhenSmall ==
    (wc_pc = "done" /\ Len(lines) <= chunk_size) =>
        /\ mainfile = [k \in 1..Len(lines) |-> Line(lines[k])]
        /\ SelectKind(mainfile, "call") = <<>>
        /\ deffile = <<>>

\* the boundary case of C7: exactly chunk_size items have been written
C7_Witness ==
    /\ wc_pc = "done"
    /\ Len(lines) = chunk_size
    /\ chunk_size > 1
    /\ Len(mainfile) = chunk_size

(***************************************************************************)
(* The facade's claims, under Spec.                                        *)
(***************************************************************************)
\* C1: generate_functions tries the compiled path first; an exception of that
\* attempt is not propagated, a warning is issued, f is a lambdified callable and
\* so is jac when the Jacobian is wanted. In every case f is not None when
\* generate_functions has returned.
C1_FallbackOnCompileFailure ==
    (lastOp = "generate_functions") =>
        /\ exc = "none"
        /\ f # "None"
        /\ (caught # "none" =>
                /\ compile_calls = 1
                /\ {"format_exc", "resorting to lambdified"} \subseteq warnings
                /\ _is_lambda(f)
                /\ (_wants_jacobian => _is_lambda(jac)))

\* generate_functions has caught the failure of compile_C with a Jacobian wanted
C1_Witness ==
    /\ lastOp = "generate_functions"
    /\ caught = "TypeError"
    /\ _wants_jacobian
    /\ _is_lambda(f)
    /\ _is_lambda(jac)

AfterDegradation ==
    {"set_integrator", "set_initial_value", "integrate"}

\* C3, as claimed: once generate_functions has fallen back, no later
\* set_integrator, set_initial_value or integrate enters compile_C or replaces
\* the lambdified f by a compiled one.
C3_NoLaterCompile ==
    [][(degraded # "no" /\ lastOp' \in AfterDegradation) =>
            /\ compile_calls' = 0
            /\ (_is_lambda(f) => ~_is_C(f'))]_vars

\* C3, amended: once generate_functions has fallen back, integrate never enters
\* compile_C; set_integrator, called by the user or by set_initial_value on an
\* instance without a state, enters it only when jac is None and the Jacobian is
\* required after the call has or-ed in the algorithm's use of one; a call that
\* does not enter compile_C leaves f and jac as they are.
C3_CompileOnlyForMissingJacobian ==
    [][(degraded # "no" /\ lastOp' \in AfterDegradation) =>
            /\ (lastOp' = "integrate" => compile_calls' = 0)
            /\ (compile_calls' > 0 => (jac = "None" /\ _wants_jacobian'))
            /\ (compile_calls' = 0 => (f' = f /\ jac' = jac))]_vars

\* set_integrator has entered compile_C on an instance that had fallen back in an
\* earlier call
C3_Witness ==
    /\ degraded = "before"
    /\ lastOp = "set_integrator"
    /\ compile_calls = 1
    /\ _is_lambda(f)

\* C10: the generated-code state never regresses: _f_C_source and _jac_C_source
\* never go from True to False, jac_sym never returns to None, and
\* _jac_C_source implies that jac_sym is not None.
C10_Monotonic ==
    /\ [][/\ (_f_C_source => _f_C_source')
          /\ (_jac_C_source => _jac_C_source')
          /\ (jac_sym # "None" => jac_sym' # "None")]_vars
    /\ [](_jac_C_source => jac_sym # "None")

\* an operation has raised on an instance that had generated its symbolic
\* Jacobian and had fallen back to lambdified functions
C10_Witness ==
    /\ jac_sym # "None"
    /\ degraded = "before"
    /\ exc # "none"


\* C11: once the instance has a state and a time (set by set_initial_value, or
\* advanced by integrate), a set_integrator call leaves the state vector and the
\* time as they were, for any algorithm and any number of re-selections.
C11_ReselectionKeepsState ==
    [][(lastOp' = "set_integrator" /\ t # NoAttribute) =>
            (_y' = _y /\ t' = t)]_vars

\* an algorithm has been re-selected on an instance whose state and time are not
\* the ones set_integrator gives a new instance
C11_Witness ==
    /\ lastOp = "set_integrator"
    /\ exc = "none"
    /\ _integrator = "dopri5"
    /\ t = <<1>>
    /\ _y = <<2, 2>>

\* C15: on a facade with a translatable right-hand side generate_f_C and
\* generate_jac_C run the emitter to completion and set their source-emitted
\* flag without raising, and a compile_C that raises has got past code emission.
C15_EmitterRunsToCompletion ==
    /\ (lastOp = "generate_f_C" => (exc = "none" /\ _f_C_source))
    /\ (lastOp = "generate_jac_C" => (exc = "none" /\ _jac_C_source))
    /\ (lastOp = "compile_C" => exc # "TypeError")

\* C18: the symbolic Jacobian can be read more than once: whenever jac is a
\* lambdified callable, it was built from all n rows of jac_sym, also when an
\* earlier consumer (generate_jac_C, a first generate_jac_lambda) has read jac_sym.
C18_JacobianFromAllRows ==
    _is_lambda(jac) => jac_rows = n

\* C14: save_compiled on a facade that holds no compiled derivative enters
\* compile_C before it locates and copies the module file, whatever the form of
\* the destination.
C14_SaveCompilesFirst ==
    [][(lastOp' = "save_compiled" /\ ~_is_C(f)) => compile_calls' >= 1]_vars

\* the module names compile_C has built and loaded so far
Completed == sofiles

C13_FreshDefaultName ==
    [][(lastOp' = "compile_C" /\ modulename_arg' = <<>>) =>
            /\ exc' \in {"none", "BuildError"}
            /\ _modulename' \notin modules
            /\ _modulename' \notin Completed]_vars
(***************************************************************************)
(* The claims on jitcode_lyap, under SpecLyap.                             *)
(***************************************************************************)
\* C8: for every base dimension n and every requested n_lyap, f_lyap yields as
\* many expressions as the dimension the instance declares (self.n): the n base
\* equations and n_lyap blocks of n tangent equations.
C8_ProducedCountIsDeclared ==
    (lyap_pc = "constructed") =>
        /\ Len(f_lyap(n_basic, _n_lyap)) = n
        /\ n = n_basic + _n_lyap * n_basic

\* C9: for every effective n_lyap in 0..n, jitcode_lyap.set_initial_value with a
\* physical state of length n is accepted and sets the integrator's state to
\* that state followed by n_lyap tangent blocks of length n, each a unit vector.
C9_InitialValueAccepted ==
    (lyap_pc = "constructed" /\ lastOp = "set_initial_value"
        /\ Len(y_arg) = n_basic) =>
        /\ exc = "none"
        /\ Len(_y) = n_basic * (_n_lyap + 1)
        /\ SubSeq(_y, 1, n_basic) = y_arg
        /\ \A i \in 1.._n_lyap :
              LET block == SubSeq(_y, i * n_basic + 1, (i + 1) * n_basic)
                  squares == [k \in 1..n_basic |-> block[k] * block[k]]
              IN  Sum(squares) = 1

(***************************************************************************)
(* The claims on render_and_write_code, under SpecEmitter.                 *)
(***************************************************************************)
\* the parameter lists of the sub-routines defined in a definitions stream
SubroutineParameters(def) ==
    { SelectKind(def, "open")[k].args : k \in 1..Len(SelectKind(def, "open")) }

NoDuplicates(sq) == \A i, j \in 1..Len(sq) : i # j => sq[i] # sq[j]

\* C19: a call of render_and_write_code leaves the caller's parameter list and
\* function-name table and its own defaults for them as they were, and no
\* sub-routine of a call gets a helper-buffer parameter left over from an
\* earlier call.
C19_EmitterLeavesInputsAlone ==
    /\ [][/\ caller_arguments' = caller_arguments
          /\ caller_user_functions' = caller_user_functions
          /\ default_arguments' = default_arguments
          /\ default_user_functions' = default_user_functions]_vars
    /\ [](\A params \in SubroutineParameters(deffile) : NoDuplicates(params))
\* the symbols a lambdified expression may contain
ArgumentSymbols == { ArgumentSymbol(i) : i \in 0..(MaxDim - 1) }

\* C16: for a sorted helper list, the expressions generate_f_lambda and
\* generate_jac_lambda lambdify contain no helper symbol and no y(i), however
\* long the chain of helpers is.
C16_FullySubstituted ==
    IsSorted(sym_helpers) =>
        /\ \A i \in 1..Len(F) : F[i] \subseteq ArgumentSymbols
        /\ \A i \in 1..Len(JAC) : \A j \in 1..Len(JAC[i]) :
              JAC[i][j] \subseteq ArgumentSymbols

\* the helper symbols listed in one per-index list
Listed(dep) == { dep[k][1] : k \in 1..Len(dep) }

\* the positions of the helpers whose value depends on y(j), directly or through
\* a chain of helpers, closure being the pairs of positions joined by a chain
DependOnState(hs, closure, j) ==
    { a \in 1..Len(hs) :
        \/ j \in hs[a].ys
        \/ \E b \in 1..Len(hs) : <<a, b>> \in closure /\ j \in hs[b].ys }

\* every per-index list holds exactly the helpers that depend on its state
ListsDependents(dep, hs, closure) ==
    \A j \in 1..Len(dep) :
        Listed(dep[j]) =
            { HelperSymbol(hs[a].sym) : a \in DependOnState(hs, closure, j - 1) }

\* every dependency path of at most fuel helpers from an expression to y(j)
RECURSIVE PathsToState(_, _, _, _)
PathsToState(expr, j, hs, fuel) ==
    (IF StateSymbol(j) \in expr THEN {<<StateSymbol(j)>>} ELSE {})
    \cup
    (IF fuel = 0
     THEN {}
     ELSE UNION { { <<HelperSymbol(hs[k].sym)>> \o p :
                        p \in PathsToState(Symbols(hs[k]), j, hs, fuel - 1) } :
                  k \in { m \in 1..Len(hs) : HelperSymbol(hs[m].sym) \in expr } })

====
